---- MODULE Spec2Model ----
(***************************************************************************)
(* Model of the E3 Achievement order backend (src/e3-server-backend.js):   *)
(* the POST /api/submit-order route with its rate limiter, validation,     *)
(* order-number generation, composition of the two e-mails and their       *)
(* dispatch through Promise.all.                                           *)
(*                                                                         *)
(* Every request in flight occupies one slot of Requests.  A slot walks    *)
(* through the route's code one step at a time, so that requests           *)
(* interleave at least as finely as Node's event loop lets them.           *)
(***************************************************************************)
EXTENDS Integers, Sequences, FiniteSets, TLC

VARIABLES
    hits,       \* the limiter's store: client identity -> hits in this window
    admitted,   \* history: requests the limiter let through, per identity, this window
    attempts,   \* history: requests that reached the limiter, per identity, this window
    delivered,  \* history: an order of the identity was answered 200 in this window
    now,        \* the wall clock read by Date.now()
    req         \* per slot: the request being handled there

vars == <<hits, admitted, attempts, delivered, now, req>>

----------------------------------------------------------------------------
(* Bounds of the model *)

\* a client makes at most this many submissions in one window
MaxHits == 7

\* the clock stops advancing here
MaxNow == 1

\* slots for requests in flight at the same time
Requests == {"r1", "r2"}

\* client identities (req.ip)
Identities == {"ipA", "ipB"}

----------------------------------------------------------------------------
(* Program constants *)

\* rateLimit({ max: 5 })
max == 5

\* nodemailer envelope of the business copy: to: 'imageinboxe3@gmail.com'
BusinessAddress == "imageinboxe3@gmail.com"

TooManyOrders == "Too many orders submitted, please try again later."
MissingCustomerInfo == "Missing required customer information"
EmptyOrder == "No items in order"
FailedToSubmit == "Failed to submit order. Please try again or contact us directly."
SubmittedOk == "Order submitted successfully"

----------------------------------------------------------------------------
(* JavaScript values, as far as the route looks at them *)

Undefined == [t |-> "undefined"]
Str(s) == [t |-> "string", v |-> s]
Num(n) == [t |-> "number", v |-> n]          \* an amount, in cents
Arr(s) == [t |-> "array", v |-> s]

\* !x is Falsy(x)
Falsy(x) ==
    \/ x.t = "undefined"
    \/ x.t = "string" /\ x.v = ""
    \/ x.t = "number" /\ x.v = 0

\* x.toFixed exists and can be called: only numbers have it
HasToFixed(x) == x.t = "number"

\* n.toFixed(2) of an amount in cents: <<dollars, cents>>, cents in two digits
toFixed2(x) == <<x.v \div 100, (x.v % 100) \div 10, x.v % 10>>

Min(a, b) == IF a < b THEN a ELSE b

\* String.prototype.substr(start, length) on a string held as a sequence of
\* characters: at most length characters from the 0-based index start
substr(s, start, length) == SubSeq(s, start + 1, Min(Len(s), start + length))

Lower == <<"a", "b", "c", "d", "e", "f", "g", "h", "i", "j", "k", "l", "m",
           "n", "o", "p", "q", "r", "s", "t", "u", "v", "w", "x", "y", "z">>
Upper == <<"A", "B", "C", "D", "E", "F", "G", "H", "I", "J", "K", "L", "M",
           "N", "O", "P", "Q", "R", "S", "T", "U", "V", "W", "X", "Y", "Z">>

\* String.prototype.toUpperCase()
toUpperCase(s) ==
    [i \in 1..Len(s) |->
        IF \E k \in 1..26 : Lower[k] = s[i]
        THEN Upper[CHOOSE k \in 1..26 : Lower[k] = s[i]]
        ELSE s[i]]

----------------------------------------------------------------------------
(* Inputs *)

\* req.body.customer
Customers ==
    { Undefined,
      [t |-> "object", name |-> Str(""), email |-> Str("jane@example.com")],
      [t |-> "object", name |-> Str("Jane Doe"), email |-> Undefined],
      [t |-> "object", name |-> Str("Jane Doe"), email |-> Str("jane@example.com")] }

Item(price, subtotal) ==
    [name |-> Str("Sticker"), quantity |-> Num(2), price |-> price, subtotal |-> subtotal]

\* req.body.items: absent, empty, one well-formed line, one line whose price
\* came as a string
ItemLists ==
    { Undefined,
      Arr(<<>>),
      Arr(<<Item(Num(350), Num(700))>>),
      Arr(<<Item(Str("3.50"), Num(700))>>) }

\* req.body.total
Totals == { Num(700), Undefined }

\* what a rejected sendMail promise carries
TransportErrors == { "Invalid login", "Connection timeout" }

\* what a template throws on a value without toFixed
TypeErrorText == "TypeError: toFixed is not a function"

\* req.body, as express.json() hands it to the route
Bodies ==
    { [customer |-> c, items |-> i, total |-> tt, orderDate |-> Str("2024-01-01T00:00:00Z")] :
        c \in Customers, i \in ItemLists, tt \in Totals }

\* Math.random().toString(36): 0 prints as "0", 0.5 as "0.i", and a typical
\* draw prints with eleven digits after the point
TypicalRandom == <<"0", ".", "4", "f", "z", "y", "o", "8", "2", "m", "v", "y", "r">>

RandomStrings == { <<"0">>, <<"0", ".", "i">>, TypicalRandom }

\* the order of the spec's scenario
ValidBody ==
    [customer |-> [t |-> "object", name |-> Str("Jane Doe"), email |-> Str("jane@example.com")],
     items |-> Arr(<<Item(Num(350), Num(700))>>),
     total |-> Num(700),
     orderDate |-> Str("2024-01-01T00:00:00Z")]

GateBodies == { ValidBody, [ValidBody EXCEPT !.items = Arr(<<>>)] }

----------------------------------------------------------------------------
(* Per-request state *)

NoOrderNumber == [prefix |-> "", ts |-> -1, suffix |-> <<>>]
NoMessage == [to |-> Undefined, orderNumber |-> NoOrderNumber, name |-> Undefined, total |-> <<>>, lines |-> <<>>]
NoBody == [customer |-> Undefined, items |-> Undefined, total |-> Undefined, orderDate |-> Undefined]
NoResponse == [success |-> FALSE, orderNumber |-> NoOrderNumber, message |-> "", error |-> ""]

IdleRequest ==
    [ pc          |-> "Idle",
      ip          |-> "",
      body        |-> NoBody,
      orderNumber |-> NoOrderNumber,
      identifiedAt |-> -1,         \* history: Date.now() when line 50 ran
      drawn       |-> <<>>,        \* history: Math.random().toString(36) at line 50
      businessEmailOptions |-> NoMessage,
      customerEmailOptions |-> NoMessage,
      business    |-> "none",      \* transporter.sendMail(businessEmailOptions)
      customer    |-> "none",      \* transporter.sendMail(customerEmailOptions)
      sendMail    |-> 0,           \* calls of transporter.sendMail
      sent        |-> <<>>,        \* the envelopes handed to sendMail, in order
      caught      |-> "",          \* the error the catch block logged
      status      |-> 0,           \* res.status(...)
      resBody     |-> NoResponse,  \* res.json(...)
      responses   |-> 0 ]          \* responses written

\* res.status(code).json(body)
Respond(q, code, body) ==
    [q EXCEPT !.pc = "Responded", !.status = code, !.resBody = body,
              !.responses = @ + 1]

ErrorBody(msg) == [NoResponse EXCEPT !.error = msg]

----------------------------------------------------------------------------
(* The route's pure parts *)

\* a faulty store: a hit made while the counter is already running is lost
IncrementLost(h) == IF h > 0 THEN h ELSE h + 1

\* the store's increment of one identity's counter
Increment(h) == h + 1

\* a faulty limiter: the hit that reaches the limit is already turned away
ExceededAtLimit(totalHits) == totalHits >= max

\* max: 5: the hit is over the limit
Exceeded(totalHits) == totalHits > max

\* a faulty validation: the e-mail address is not looked at
MissingCustomerNoEmailCheck(b) ==
    \/ Falsy(b.customer)
    \/ Falsy(b.customer.name)

\* line 37: !customer || !customer.name || !customer.email
MissingCustomer(b) ==
    \/ Falsy(b.customer)
    \/ Falsy(b.customer.name)
    \/ Falsy(b.customer.email)

\* a faulty validation: an empty list counts as items
NoItemsAbsentOnly(b) == Falsy(b.items)

\* line 43: !items || items.length === 0
NoItems(b) ==
    \/ Falsy(b.items)
    \/ Len(b.items.v) = 0

\* a faulty generator: the timestamp is left out
OrderNumberNoTime(ts, random) ==
    [prefix |-> "E3-", ts |-> 0, suffix |-> toUpperCase(substr(random, 2, 9))]

\* line 50: `E3-${Date.now()}-${Math.random().toString(36).substr(2, 9).toUpperCase()}`
OrderNumber(ts, random) ==
    [prefix |-> "E3-", ts |-> ts, suffix |-> toUpperCase(substr(random, 2, 9))]

\* the template literals call .toFixed(2) on every item's price and subtotal
\* and on total; a value without that method throws a TypeError
ComposeThrows(b) ==
    \/ \E i \in 1..Len(b.items.v) :
          \/ ~HasToFixed(b.items.v[i].price)
          \/ ~HasToFixed(b.items.v[i].subtotal)
    \/ ~HasToFixed(b.total)

\* lines 53-55: one row per item
itemsList(b) ==
    [i \in 1..Len(b.items.v) |->
        [quantity |-> b.items.v[i].quantity, name |-> b.items.v[i].name,
         price |-> toFixed2(b.items.v[i].price),
         subtotal |-> toFixed2(b.items.v[i].subtotal)]]

\* lines 58-160: to the fixed address; the subject carries the order number,
\* the customer's name and the total
BusinessEmail(b, on) ==
    [to |-> Str(BusinessAddress), orderNumber |-> on, name |-> b.customer.name,
     total |-> toFixed2(b.total), lines |-> itemsList(b)]

\* a faulty customer copy: its subject carries a number generated a second time
CustomerEmailOtherNumber(b, on) ==
    [to |-> b.customer.email, orderNumber |-> OrderNumber(on.ts + 1, <<>>),
     name |-> b.customer.name, total |-> toFixed2(b.total), lines |-> itemsList(b)]

\* lines 163-249: to customer.email; the subject carries the order number
CustomerEmail(b, on) ==
    [to |-> b.customer.email, orderNumber |-> on, name |-> b.customer.name,
     total |-> toFixed2(b.total), lines |-> itemsList(b)]

\* a faulty join: only the business submission is awaited
PromiseAllBusinessOnly(q) ==
    IF q.business = "failed" THEN "rejected"
    ELSE IF q.business = "ok" THEN "fulfilled"
    ELSE "pending"

\* a faulty join: the first submission to succeed decides
PromiseAny(q) ==
    IF q.business = "ok" \/ q.customer = "ok" THEN "fulfilled"
    ELSE IF q.business = "failed" /\ q.customer = "failed" THEN "rejected"
    ELSE "pending"

\* lines 252-255: Promise.all of the two sendMail promises rejects as soon as
\* one of them rejects and fulfils once both have fulfilled
PromiseAll(q) ==
    IF q.business = "failed" \/ q.customer = "failed" THEN "rejected"
    ELSE IF q.business = "ok" /\ q.customer = "ok" THEN "fulfilled"
    ELSE "pending"

\* a faulty catch block: the error's text is sent to the caller
CatchLeaky(q, error) ==
    Respond([q EXCEPT !.caught = error], 500, ErrorBody(error))

\* lines 266-271: the catch block logs the error and answers with the fixed
\* message
Catch(q, error) ==
    Respond([q EXCEPT !.caught = error], 500, ErrorBody(FailedToSubmit))

\* a faulty response: the order number is left out
SuccessBodyNoNumber(q) ==
    [NoResponse EXCEPT !.success = TRUE, !.message = SubmittedOk]

\* lines 260-264: { success: true, orderNumber: orderNumber, message: ... }
SuccessBody(q) ==
    [NoResponse EXCEPT !.success = TRUE, !.orderNumber = q.orderNumber,
                       !.message = SubmittedOk]

----------------------------------------------------------------------------
(* Actions *)

Init ==
    /\ hits = [ip \in Identities |-> 0]
    /\ admitted = [ip \in Identities |-> 0]
    /\ attempts = [ip \in Identities |-> 0]
    /\ delivered = [ip \in Identities |-> FALSE]
    /\ now = 0
    /\ req = [r \in Requests |-> IdleRequest]

\* requests of one identity that have arrived and not yet reached the limiter
Waiting(ip) == Cardinality({r \in Requests : req[r].pc = "Received" /\ req[r].ip = ip})

\* a POST /api/submit-order arrives from one of the clients ips, carrying one
\* of bodies
Receive(r, ips, bodies) ==
    /\ req[r].pc = "Idle"
    /\ \E ip \in ips, b \in bodies :
          /\ hits[ip] + Waiting(ip) < MaxHits
          /\ req' = [req EXCEPT ![r] = [IdleRequest EXCEPT !.pc = "Received", !.ip = ip, !.body = b]]
    /\ UNCHANGED <<hits, admitted, attempts, delivered, now>>

\* a faulty limiter: it answers 429 and passes the request on all the same
LimiterCallsNext(r) ==
    /\ req[r].pc = "Received"
    /\ LET ip == req[r].ip
           totalHits == hits[ip] + 1
       IN /\ hits' = [hits EXCEPT ![ip] = totalHits]
          /\ attempts' = [attempts EXCEPT ![ip] = @ + 1]
          /\ IF totalHits > max
             THEN /\ req' = [req EXCEPT ![r] =
                               [Respond(@, 429, ErrorBody(TooManyOrders)) EXCEPT !.pc = "RateChecked"]]
                  /\ UNCHANGED admitted
             ELSE /\ req' = [req EXCEPT ![r].pc = "RateChecked"]
                  /\ admitted' = [admitted EXCEPT ![ip] = @ + 1]
    /\ UNCHANGED <<delivered, now>>

\* a faulty limiter: one counter is kept for all clients
LimiterSharedCounter(r) ==
    /\ req[r].pc = "Received"
    /\ LET ip == req[r].ip
           totalHits == hits[ip] + 1
       IN /\ hits' = [i \in Identities |-> totalHits]
          /\ attempts' = [attempts EXCEPT ![ip] = @ + 1]
          /\ IF totalHits > max
             THEN /\ req' = [req EXCEPT ![r] = Respond(@, 429, ErrorBody(TooManyOrders))]
                  /\ UNCHANGED admitted
             ELSE /\ req' = [req EXCEPT ![r].pc = "RateChecked"]
                  /\ admitted' = [admitted EXCEPT ![ip] = @ + 1]
    /\ UNCHANGED <<delivered, now>>

\* lines 16-20 and 32: the limiter counts the hit, and either answers 429
\* with its message or passes the request on to the route
Limiter(r) ==
    /\ req[r].pc = "Received"
    /\ LET ip == req[r].ip
           totalHits == Increment(hits[ip])
       IN /\ hits' = [hits EXCEPT ![ip] = totalHits]
          /\ attempts' = [attempts EXCEPT ![ip] = @ + 1]
          /\ IF Exceeded(totalHits)
             THEN /\ req' = [req EXCEPT ![r] = Respond(@, 429, ErrorBody(TooManyOrders))]
                  /\ UNCHANGED admitted
             ELSE /\ req' = [req EXCEPT ![r].pc = "RateChecked"]
                  /\ admitted' = [admitted EXCEPT ![ip] = @ + 1]
    /\ UNCHANGED <<delivered, now>>

\* a faulty validation: the 400 for an empty order is sent without return, and
\* the route goes on
ValidateNoReturn(r) ==
    /\ req[r].pc = "RateChecked"
    /\ LET q == req[r]
       IN req' = [req EXCEPT ![r] =
                    IF Falsy(q.body.customer) \/ Falsy(q.body.customer.name)
                                               \/ Falsy(q.body.customer.email)
                    THEN Respond(q, 400, ErrorBody(MissingCustomerInfo))
                    ELSE IF Falsy(q.body.items)
                    THEN Respond(q, 400, ErrorBody(EmptyOrder))
                    ELSE IF Len(q.body.items.v) = 0
                    THEN [Respond(q, 400, ErrorBody(EmptyOrder)) EXCEPT !.pc = "Validated"]
                    ELSE [q EXCEPT !.pc = "Validated"]]
    /\ UNCHANGED <<hits, admitted, attempts, delivered, now>>

\* a faulty validation: the items are checked before the customer
ValidateItemsFirst(r) ==
    /\ req[r].pc = "RateChecked"
    /\ req' = [req EXCEPT ![r] =
                 IF NoItems(@.body) THEN Respond(@, 400, ErrorBody(EmptyOrder))
                 ELSE IF MissingCustomer(@.body) THEN Respond(@, 400, ErrorBody(MissingCustomerInfo))
                 ELSE [@ EXCEPT !.pc = "Validated"]]
    /\ UNCHANGED <<hits, admitted, attempts, delivered, now>>

\* lines 34-47
Validate(r) ==
    /\ req[r].pc = "RateChecked"
    /\ req' = [req EXCEPT ![r] =
                 IF MissingCustomer(@.body) THEN Respond(@, 400, ErrorBody(MissingCustomerInfo))
                 ELSE IF NoItems(@.body) THEN Respond(@, 400, ErrorBody(EmptyOrder))
                 ELSE [@ EXCEPT !.pc = "Validated"]]
    /\ UNCHANGED <<hits, admitted, attempts, delivered, now>>

\* line 50
Identify(r, randoms) ==
    /\ req[r].pc = "Validated"
    /\ \E random \in randoms :
          req' = [req EXCEPT ![r].pc = "Identified",
                             ![r].orderNumber = OrderNumber(now, random),
                             ![r].identifiedAt = now,
                             ![r].drawn = random]
    /\ UNCHANGED <<hits, admitted, attempts, delivered, now>>

\* a faulty composition: the business copy is sent as soon as it is composed,
\* before the customer copy is
ComposeSendsEarly(r) ==
    /\ req[r].pc = "Identified"
    /\ LET q == req[r]
       IN req' = [req EXCEPT ![r] =
                    IF ComposeThrows(q.body) THEN Catch(q, TypeErrorText)
                    ELSE [q EXCEPT !.pc = "Composed",
                                   !.businessEmailOptions = BusinessEmail(q.body, q.orderNumber),
                                   !.business = "pending",
                                   !.sendMail = 1,
                                   !.sent = <<BusinessEmail(q.body, q.orderNumber)>>,
                                   !.customerEmailOptions = CustomerEmail(q.body, q.orderNumber)]]
    /\ UNCHANGED <<hits, admitted, attempts, delivered, now>>

\* lines 53-249; a TypeError thrown by a template lands in the catch block
Compose(r) ==
    /\ req[r].pc = "Identified"
    /\ LET q == req[r]
       IN req' = [req EXCEPT ![r] =
                    IF ComposeThrows(q.body) THEN Catch(q, TypeErrorText)
                    ELSE [q EXCEPT !.pc = "Composed",
                                   !.businessEmailOptions = BusinessEmail(q.body, q.orderNumber),
                                   !.customerEmailOptions = CustomerEmail(q.body, q.orderNumber)]]
    /\ UNCHANGED <<hits, admitted, attempts, delivered, now>>

\* a faulty dispatch: the customer copy waits for the business copy
DispatchBusinessFirst(r) ==
    /\ req[r].pc = "Composed"
    /\ req' = [req EXCEPT ![r].pc = "Dispatched",
                          ![r].business = "pending",
                          ![r].sendMail = @ + 1,
                          ![r].sent = <<req[r].businessEmailOptions>>]
    /\ UNCHANGED <<hits, admitted, attempts, delivered, now>>

\* lines 252-255: both sendMail calls are made, then the route awaits
Dispatch(r) ==
    /\ req[r].pc = "Composed"
    /\ req' = [req EXCEPT ![r].pc = "Dispatched",
                          ![r].business = "pending",
                          ![r].customer = "pending",
                          ![r].sendMail = @ + 2,
                          ![r].sent = <<req[r].businessEmailOptions,
                                        req[r].customerEmailOptions>>]
    /\ UNCHANGED <<hits, admitted, attempts, delivered, now>>

\* the transport settles the business submission
SettleBusiness(r) ==
    /\ req[r].business = "pending"
    /\ \E outcome \in {"ok", "failed"} : req' = [req EXCEPT ![r].business = outcome]
    /\ UNCHANGED <<hits, admitted, attempts, delivered, now>>

\* the transport settles the customer submission
SettleCustomer(r) ==
    /\ req[r].customer = "pending"
    /\ \E outcome \in {"ok", "failed"} : req' = [req EXCEPT ![r].customer = outcome]
    /\ UNCHANGED <<hits, admitted, attempts, delivered, now>>

\* lines 260-264: the await returned
Succeed(r) ==
    /\ req[r].pc = "Dispatched"
    /\ PromiseAll(req[r]) = "fulfilled"
    /\ req' = [req EXCEPT ![r] = Respond(@, 200, SuccessBody(@))]
    /\ delivered' = [delivered EXCEPT ![req[r].ip] = TRUE]
    /\ UNCHANGED <<hits, admitted, attempts, now>>

\* a faulty failure path: the hit of a request that fails is given back
FailRefund(r) ==
    /\ req[r].pc = "Dispatched"
    /\ PromiseAll(req[r]) = "rejected"
    /\ \E error \in TransportErrors : req' = [req EXCEPT ![r] = Catch(@, error)]
    /\ hits' = [hits EXCEPT ![req[r].ip] = IF @ > 0 THEN @ - 1 ELSE 0]
    /\ UNCHANGED <<admitted, attempts, delivered, now>>

\* a faulty failure path: a rejected business submission is sent once more
\* before the route gives up
FailRetry(r) ==
    /\ req[r].pc = "Dispatched"
    /\ PromiseAll(req[r]) = "rejected"
    /\ IF req[r].business = "failed" /\ req[r].sendMail < 3
       THEN req' = [req EXCEPT ![r].business = "pending",
                               ![r].sendMail = @ + 1,
                               ![r].sent = Append(@, req[r].businessEmailOptions)]
       ELSE \E error \in TransportErrors : req' = [req EXCEPT ![r] = Catch(@, error)]
    /\ UNCHANGED <<hits, admitted, attempts, delivered, now>>

\* lines 266-271: the await threw
Fail(r) ==
    /\ req[r].pc = "Dispatched"
    /\ PromiseAll(req[r]) = "rejected"
    /\ \E error \in TransportErrors : req' = [req EXCEPT ![r] = Catch(@, error)]
    /\ UNCHANGED <<hits, admitted, attempts, delivered, now>>

\* the exchange is over and nothing of it is kept
Close(r) ==
    /\ req[r].pc = "Responded"
    /\ req[r].business # "pending"
    /\ req[r].customer # "pending"
    /\ req' = [req EXCEPT ![r] = IdleRequest]
    /\ UNCHANGED <<hits, admitted, attempts, delivered, now>>

\* line 17: the 15-minute window ends and the store starts counting afresh
ResetAll ==
    /\ \E ip \in Identities : attempts[ip] > 0
    /\ hits' = [ip \in Identities |-> 0]
    /\ admitted' = [ip \in Identities |-> 0]
    /\ attempts' = [ip \in Identities |-> 0]
    /\ delivered' = [ip \in Identities |-> FALSE]
    /\ UNCHANGED <<now, req>>

\* a millisecond passes
Tick ==
    /\ now < MaxNow
    /\ now' = now + 1
    /\ UNCHANGED <<hits, admitted, attempts, delivered, req>>

\* what the server does with a request it has received, Identify apart
Handle(r) ==
    \/ Limiter(r)
    \/ Validate(r)
    \/ Compose(r)
    \/ Dispatch(r)
    \/ SettleBusiness(r)
    \/ SettleCustomer(r)
    \/ Succeed(r)
    \/ Fail(r)
    \/ Close(r)

\* Orders of every shape from one client, two of them in flight at a time
Next ==
    \/ \E r \in Requests :
          \/ Receive(r, {"ipA"}, Bodies)
          \/ Identify(r, {TypicalRandom})
          \/ Handle(r)
    \/ ResetAll
    \/ Tick

Spec == Init /\ [][Next]_vars

\* Two clients, each sending well-formed orders and orders without items
NextGate ==
    \/ \E r \in Requests :
          \/ Receive(r, Identities, GateBodies)
          \/ Identify(r, {TypicalRandom})
          \/ Handle(r)
    \/ ResetAll

SpecGate == Init /\ [][NextGate]_vars

\* One client sending well-formed orders, the random source drawing any of
\* RandomStrings while the clock advances
NextIds ==
    \/ \E r \in Requests :
          \/ Receive(r, {"ipA"}, {ValidBody})
          \/ Identify(r, RandomStrings)
          \/ Handle(r)
    \/ ResetAll
    \/ Tick

SpecIds == Init /\ [][NextIds]_vars

\* One client whose orders are well-formed, lack the customer, lack items or
\* lack the total; every step of the server and of the transport is taken in
\* the end
FairBodies ==
    { ValidBody,
      [ValidBody EXCEPT !.customer = Undefined],
      [ValidBody EXCEPT !.items = Arr(<<>>)],
      [ValidBody EXCEPT !.total = Undefined] }

NextFair ==
    \/ \E r \in Requests :
          \/ Receive(r, {"ipA"}, FairBodies)
          \/ Identify(r, {TypicalRandom})
          \/ Handle(r)
    \/ ResetAll

Fairness ==
    \A r \in Requests :
        /\ WF_vars(Limiter(r))
        /\ WF_vars(Validate(r))
        /\ WF_vars(Identify(r, {TypicalRandom}))
        /\ WF_vars(Compose(r))
        /\ WF_vars(Dispatch(r))
        /\ WF_vars(SettleBusiness(r))
        /\ WF_vars(SettleCustomer(r))
        /\ WF_vars(Succeed(r))
        /\ WF_vars(Fail(r))

FairSpec == Init /\ [][NextFair]_vars /\ Fairness

----------------------------------------------------------------------------
(* Vocabulary of the claims *)

\* the limiter let the request through
Admitted(q) == q.pc \notin {"Idle", "Received"} /\ q.status # 429

\* the request got as far as the sendMail calls
ReachedDispatch(q) == q.sendMail > 0

\* a valid Order: customer with name and e-mail, at least one item, numeric
\* prices, subtotals and total
ValidOrder(b) ==
    /\ b.customer.t = "object"
    /\ b.customer.name.t = "string" /\ b.customer.name.v # ""
    /\ b.customer.email.t = "string" /\ b.customer.email.v # ""
    /\ b.items.t = "array" /\ Len(b.items.v) >= 1
    /\ \A i \in 1..Len(b.items.v) :
          b.items.v[i].price.t = "number" /\ b.items.v[i].subtotal.t = "number"
    /\ b.total.t = "number"

\* the payload has no customer object, or no name, or no e-mail
CustomerInfoMissing(b) ==
    \/ b.customer.t = "undefined"
    \/ b.customer.name.t = "undefined" \/ (b.customer.name.t = "string" /\ b.customer.name.v = "")
    \/ b.customer.email.t = "undefined" \/ (b.customer.email.t = "string" /\ b.customer.email.v = "")

\* the item list is missing or empty
ItemListEmpty(b) ==
    \/ b.items.t = "undefined"
    \/ b.items.t = "array" /\ b.items.v = <<>>

----------------------------------------------------------------------------
(* C1 *)

\* C1: an admitted request with a valid Order whose two submissions both
\* succeeded is answered, when it is answered, with 200 and
\* {success: true, orderNumber, message}, orderNumber being the order number
\* generated for it; it is never answered with anything else.
C1_ValidOrderSucceeds ==
    \A r \in Requests :
        LET q == req[r] IN
        (Admitted(q) /\ ValidOrder(q.body) /\ q.business = "ok" /\ q.customer = "ok")
          => /\ q.status \in {0, 200}
             /\ q.pc = "Responded" =>
                   /\ q.status = 200
                   /\ q.resBody.success = TRUE
                   /\ q.resBody.message = SubmittedOk
                   /\ q.resBody.error = ""
                   /\ q.resBody.orderNumber = q.orderNumber
                   /\ q.orderNumber.prefix = "E3-"

C1_Witness ==
    \E r \in Requests :
        /\ req[r].pc = "Responded" /\ req[r].status = 200
        /\ ValidOrder(req[r].body)
        /\ req[r].business = "ok" /\ req[r].customer = "ok"
        /\ req[r].resBody.orderNumber = OrderNumber(now, TypicalRandom)

(* C2 *)

\* C2: an admitted request without customer, name or e-mail is answered with
\* 400 and 'Missing required customer information', and sendMail is never
\* called for it.
C2_MissingCustomerRejected ==
    \A r \in Requests :
        LET q == req[r] IN
        (Admitted(q) /\ CustomerInfoMissing(q.body))
          => /\ q.sendMail = 0
             /\ q.business = "none" /\ q.customer = "none"
             /\ q.pc \in {"RateChecked", "Responded"}
             /\ q.pc = "Responded" =>
                   q.status = 400 /\ q.resBody.error = MissingCustomerInfo
                                  /\ q.resBody.success = FALSE

C2_Witness ==
    \E r \in Requests :
        /\ req[r].pc = "Responded" /\ req[r].status = 400
        /\ req[r].body.customer.t = "object"
        /\ req[r].body.customer.email = Undefined
        /\ req[r].resBody.error = MissingCustomerInfo

(* C3 *)

\* C3: an admitted request with customer information but a missing or empty
\* item list is answered with 400 and 'No items in order', and sendMail is
\* never called for it.
C3_EmptyOrderRejected ==
    \A r \in Requests :
        LET q == req[r] IN
        (Admitted(q) /\ ~CustomerInfoMissing(q.body) /\ ItemListEmpty(q.body))
          => /\ q.sendMail = 0
             /\ q.business = "none" /\ q.customer = "none"
             /\ q.pc \in {"RateChecked", "Responded"}
             /\ q.pc = "Responded" =>
                   q.status = 400 /\ q.resBody.error = EmptyOrder
                                  /\ q.resBody.success = FALSE

C3_Witness ==
    \E r \in Requests :
        /\ req[r].pc = "Responded" /\ req[r].status = 400
        /\ req[r].body.items = Arr(<<>>)
        /\ req[r].resBody.error = EmptyOrder

(* C4 *)

\* the limiter's step for r: with n earlier attempts of the same identity in
\* this window, the request is let through if n < 5 and answered 429 if not
C4_Decision(r) ==
    (req[r].pc = "Received" /\ req'[r].pc # "Received")
      => IF attempts[req[r].ip] < 5
         THEN req'[r].pc = "RateChecked" /\ req'[r].status = 0
         ELSE req'[r].pc = "Responded" /\ req'[r].status = 429

\* C4: within one window the 1st to 5th attempts of an identity are admitted
\* and the 6th and every later one is rejected; at no time have more than 5
\* requests of one identity been admitted in the window.
C4_AdmissionBound ==
    /\ [](\A ip \in Identities : admitted[ip] <= 5)
    /\ [][\A r \in Requests : C4_Decision(r)]_vars

C4_Witness ==
    \E r \in Requests :
        /\ req[r].pc = "Responded" /\ req[r].status = 429
        /\ admitted[req[r].ip] = 5
        /\ attempts[req[r].ip] = 7

(* C5 *)

\* C5: a request that reached dispatch and one of whose submissions failed is
\* never answered with success: its response is 500 with the generic message,
\* also when the other submission succeeded.
C5_AllOrNothing ==
    \A r \in Requests :
        LET q == req[r] IN
        (ReachedDispatch(q) /\ (q.business = "failed" \/ q.customer = "failed"))
          => /\ q.status \in {0, 500}
             /\ q.pc = "Responded" =>
                   q.status = 500 /\ q.resBody.success = FALSE
                                  /\ q.resBody.error = FailedToSubmit

C5_Witness ==
    \E r \in Requests :
        /\ req[r].pc = "Responded" /\ req[r].status = 500
        /\ req[r].business = "ok" /\ req[r].customer = "failed"

(* C6 *)

C8_Untouched(r) ==
    req[r].status = 429 => req'[r] = req[r] \/ req'[r] = IdleRequest

\* C8: a request the limiter rejects is answered 429 with the limiter's
\* message and nothing downstream runs for it: it is not validated, gets no
\* order number, no message is composed and sendMail is not called.
C8_RejectedStopsAtGate ==
    /\ [](\A r \in Requests :
             req[r].status = 429
               => /\ req[r].pc = "Responded"
                  /\ req[r].responses = 1
                  /\ req[r].resBody = ErrorBody(TooManyOrders)
                  /\ req[r].orderNumber = NoOrderNumber
                  /\ req[r].businessEmailOptions = NoMessage
                  /\ req[r].customerEmailOptions = NoMessage
                  /\ req[r].sendMail = 0
                  /\ req[r].business = "none" /\ req[r].customer = "none")
    /\ [][\A r \in Requests : C8_Untouched(r)]_vars

C8_Witness ==
    \E r \in Requests :
        /\ req[r].pc = "Responded" /\ req[r].status = 429
        /\ ValidOrder(req[r].body)
        /\ hits[req[r].ip] > 5

(* C9 *)

\* the stages in their order
Stages == <<"Received", "RateChecked", "Validated", "Identified", "Composed", "Dispatched">>

\* a step of r's stage: none, the next stage, the response that ends the
\* sequence (a failure unless it follows Dispatched), or the end of the exchange
C9_StageStep(r) ==
    \/ req'[r].pc = req[r].pc /\ req'[r].responses = req[r].responses
    \/ req[r].pc = "Idle" /\ req'[r].pc = "Received" /\ req'[r].responses = 0
    \/ \E i \in 1..5 :
          /\ req[r].pc = Stages[i] /\ req'[r].pc = Stages[i + 1]
          /\ req'[r].responses = 0
    \/ /\ req[r].pc \in {"Received", "RateChecked", "Validated", "Identified", "Composed"}
       /\ req'[r].pc = "Responded"
       /\ req'[r].responses = 1
       /\ req'[r].status \in {400, 429, 500} /\ req'[r].resBody.success = FALSE
    \/ /\ req[r].pc = "Dispatched"
       /\ req'[r].pc = "Responded"
       /\ req'[r].responses = 1
       /\ req'[r].status \in {200, 500}
       /\ req'[r].resBody.success = (req'[r].status = 200)
    \/ req[r].pc = "Responded" /\ req'[r] = IdleRequest

\* C9: a request goes through Received, RateChecked, Validated, Identified,
\* Composed, Dispatched in this order, leaves the sequence early only with a
\* failure response, is answered exactly once, and, the transport settling
\* every submission, is answered in the end.
C9_StateMachine ==
    /\ [][\A r \in Requests : C9_StageStep(r)]_vars
    /\ [](\A r \in Requests :
             /\ req[r].responses <= 1
             /\ req[r].responses = 1 <=> req[r].pc = "Responded")
    /\ \A r \in Requests : (req[r].pc = "Received") ~> (req[r].pc = "Responded")

C9_Witness ==
    \E r1, r2 \in Requests :
        /\ req[r1].pc = "Responded" /\ req[r1].status = 200 /\ req[r1].responses = 1
        /\ req[r2].pc = "Responded" /\ req[r2].status = 500 /\ req[r2].sendMail = 0

(* C10 *)

\* C10: a request that passed validation is never answered 500 without
\* having reached dispatch, that is, composing its messages never fails.
C10_CompositionTotal ==
    \A r \in Requests :
        LET q == req[r] IN
        (Admitted(q) /\ ~CustomerInfoMissing(q.body) /\ ~ItemListEmpty(q.body))
          => ~(q.pc = "Responded" /\ q.status = 500 /\ ~ReachedDispatch(q))

(* C11 *)

\* C11: whatever error the catch block caught, the 500 response carries the
\* same fixed message and nothing else: two requests that caught different
\* errors are answered alike, and the error's text is in the log only.
C11_ErrorOpacity ==
    /\ \A r \in Requests :
          req[r].status = 500
            => /\ req[r].resBody = ErrorBody(FailedToSubmit)
               /\ req[r].caught # ""
               /\ req[r].resBody.error # req[r].caught
    /\ \A r1, r2 \in Requests :
          (req[r1].status = 500 /\ req[r2].status = 500)
            => req[r1].resBody = req[r2].resBody

\* two requests answered 500, one after a transport error and one after
\* another transport error
C11_Witness ==
    \E r1, r2 \in Requests :
        /\ req[r1].status = 500 /\ req[r1].caught = "Invalid login"
        /\ req[r2].status = 500 /\ req[r2].caught = "Connection timeout"
        /\ req[r1].body = req[r2].body
        /\ req[r1].resBody = req[r2].resBody

(* C12 *)

\* the envelopes of q handed to sendMail that are addressed to address
SentTo(q, address) == {i \in 1..Len(q.sent) : q.sent[i].to = address}

\* once a submission of r has failed, sendMail is not called for r again
C12_NoResend(r) ==
    (req[r].business = "failed" \/ req[r].customer = "failed")
      => \/ req'[r] = IdleRequest
         \/ /\ req'[r].sendMail = req[r].sendMail
            /\ req'[r].sent = req[r].sent
            /\ req'[r].status \in {0, 500}

\* C12: a request causes at most one submission to the business address and
\* at most one to the customer, two sendMail calls at most; after a failed
\* submission none follows and the request ends in failure.
C12_NoRetry ==
    /\ [](\A r \in Requests :
             /\ req[r].sendMail <= 2
             /\ Len(req[r].sent) = req[r].sendMail
             /\ Cardinality(SentTo(req[r], Str("imageinboxe3@gmail.com"))) <= 1
             /\ Cardinality(SentTo(req[r], req[r].body.customer.email)) <= 1)
    /\ [][\A r \in Requests : C12_NoResend(r)]_vars

C12_Witness ==
    \E r \in Requests :
        /\ req[r].pc = "Responded" /\ req[r].status = 500
        /\ req[r].business = "failed" /\ req[r].customer = "ok"
        /\ req[r].sendMail = 2
        /\ Cardinality(SentTo(req[r], Str("imageinboxe3@gmail.com"))) = 1
        /\ Cardinality(SentTo(req[r], Str("jane@example.com"))) = 1

(* C13 *)

\* r has been given an order number
Identified(r) == req[r].orderNumber # NoOrderNumber

Base36Upper ==
    {"0", "1", "2", "3", "4", "5", "6", "7", "8", "9"} \cup {Upper[k] : k \in 1..26}

\* C14: every order number is 'E3-', the millisecond timestamp, '-' and
\* exactly 9 characters out of 0-9 and A-Z, whatever the random source
\* returned.
C14_Format ==
    \A r \in Requests :
        Identified(r)
          => /\ req[r].orderNumber.prefix = "E3-"
             /\ req[r].orderNumber.ts = req[r].identifiedAt
             /\ Len(req[r].orderNumber.suffix) = 9
             /\ \A i \in 1..Len(req[r].orderNumber.suffix) :
                   req[r].orderNumber.suffix[i] \in Base36Upper

(* C15 *)

\* C15: a payload that breaks both rules is answered with 'Missing required
\* customer information', never with 'No items in order'; 'No items in order'
\* is only sent when the customer rule passed.
C15_CustomerRuleFirst ==
    \A r \in Requests :
        LET q == req[r] IN
        (q.pc = "Responded" /\ q.status = 400)
          => /\ (CustomerInfoMissing(q.body) /\ ItemListEmpty(q.body))
                   => q.resBody.error = MissingCustomerInfo
             /\ q.resBody.error = EmptyOrder => ~CustomerInfoMissing(q.body)
             /\ q.responses = 1

C15_Witness ==
    \E r \in Requests :
        /\ req[r].pc = "Responded" /\ req[r].status = 400
        /\ req[r].body.customer = Undefined
        /\ req[r].body.items = Arr(<<>>)
        /\ req[r].resBody.error = MissingCustomerInfo

(* C16 *)

\* the limiter's step for r touches the counters of r's identity only, and
\* lets r through when that identity has made fewer than 5 submissions in the
\* window, whatever the other identities have done
C16_OwnCounterOnly(r) ==
    (req[r].pc = "Received" /\ req'[r].pc # "Received")
      => /\ \A other \in Identities \ {req[r].ip} :
               /\ hits'[other] = hits[other]
               /\ admitted'[other] = admitted[other]
               /\ attempts'[other] = attempts[other]
         /\ attempts[req[r].ip] < 5 => req'[r].pc = "RateChecked"

\* a step changes the record of one request at most, and the counters only
\* when it is a limiter step or the end of the window
C16_Frame ==
    /\ \A r1, r2 \in Requests :
          (r1 # r2 /\ req'[r1] # req[r1]) => req'[r2] = req[r2]
    /\ hits' # hits
         => \/ \E r \in Requests : req[r].pc = "Received" /\ req'[r].pc # "Received"
            \/ hits' = [ip \in Identities |-> 0]

\* C16: the limiter counts per identity: the submissions of one identity
\* never change what is decided for another, and apart from the counters no
\* step of one request changes anything of another request.
C16_PerIdentity ==
    /\ [][\A r \in Requests : C16_OwnCounterOnly(r)]_vars
    /\ [][C16_Frame]_vars

\* ipA has used up its window and been turned away twice; ipB's first order
\* is let through
C16_Witness ==
    \E r \in Requests :
        /\ req[r].ip = "ipB" /\ req[r].pc = "RateChecked"
        /\ attempts["ipB"] = 1 /\ admitted["ipB"] = 1
        /\ attempts["ipA"] = 7 /\ admitted["ipA"] = 5

(* C17 *)

\* the step that sends 200 for r starts where both submissions have succeeded
C17_SentAfterBoth(r) ==
    (req[r].status # 200 /\ req'[r].status = 200)
      => /\ req[r].pc = "Dispatched"
         /\ req[r].business = "ok" /\ req[r].customer = "ok"
         /\ req'[r].resBody.success = TRUE

\* C17: a request answered 200 {success: true} has had both its submissions
\* succeed before the response was sent; 200 is never sent with a submission
\* pending or failed.
C17_SuccessMeansDelivered ==
    /\ [](\A r \in Requests :
             (req[r].status = 200 \/ req[r].resBody.success = TRUE)
               => /\ req[r].status = 200 /\ req[r].resBody.success = TRUE
                  /\ req[r].sendMail = 2
                  /\ req[r].business = "ok" /\ req[r].customer = "ok")
    /\ [][\A r \in Requests : C17_SentAfterBoth(r)]_vars

\* the customer copy was the last to be delivered, and 200 followed
C17_Witness ==
    \E r \in Requests :
        /\ req[r].pc = "Responded" /\ req[r].status = 200
        /\ req[r].resBody.success = TRUE
        /\ req[r].business = "ok" /\ req[r].customer = "ok"
        /\ Len(req[r].sent) = 2

(* C18 *)

\* sendMail is called for r only in a step that starts with both messages
\* composed
C18_SendsFromComposed(r) ==
    (req'[r].sendMail # req[r].sendMail /\ req'[r] # IdleRequest)
      => /\ req[r].pc = "Composed"
         /\ req[r].businessEmailOptions # NoMessage
         /\ req[r].customerEmailOptions # NoMessage
         /\ req[r].sendMail = 0

\* C18: no submission is started before validation has passed, the order
\* number exists and both messages are composed; a request whose composition
\* failed has no submission at all, and where one message was delivered and
\* the other was not, the other's submission failed in the transport.
C18_ComposeBeforeSend ==
    /\ [](\A r \in Requests :
             LET q == req[r] IN
             /\ (q.sendMail > 0 \/ q.sent # <<>> \/ q.business # "none" \/ q.customer # "none")
                   => /\ q.pc \in {"Dispatched", "Responded"}
                      /\ ~CustomerInfoMissing(q.body) /\ ~ItemListEmpty(q.body)
                      /\ q.orderNumber # NoOrderNumber
                      /\ q.businessEmailOptions # NoMessage
                      /\ q.customerEmailOptions # NoMessage
                      /\ q.sent = <<q.businessEmailOptions, q.customerEmailOptions>>
             /\ q.caught = TypeErrorText
                   => q.sendMail = 0 /\ q.business = "none" /\ q.customer = "none"
             /\ (q.pc = "Responded" /\ q.business = "ok" /\ q.customer # "ok")
                   => q.customer \in {"pending", "failed"} /\ q.caught \in TransportErrors
             /\ (q.pc = "Responded" /\ q.customer = "ok" /\ q.business # "ok")
                   => q.business \in {"pending", "failed"} /\ q.caught \in TransportErrors)
    /\ [][\A r \in Requests : C18_SendsFromComposed(r)]_vars

\* a validated, identified request whose composition threw: nothing was sent
C18_Witness ==
    \E r \in Requests :
        /\ req[r].pc = "Responded" /\ req[r].status = 500
        /\ req[r].caught = TypeErrorText
        /\ req[r].orderNumber # NoOrderNumber
        /\ req[r].body.total = Undefined
        /\ req[r].sendMail = 0 /\ req[r].sent = <<>>

(* C19 *)

\* answering r with 400 or 500 gives nothing back to its identity's quota
C19_NoRefund(r) ==
    (req[r].status = 0 /\ req'[r].status \in {400, 500})
      => hits' = hits /\ admitted' = admitted

\* a valid order reaching the limiter after 5 requests of its identity were
\* admitted in the window is answered 429, also when none of the 5 succeeded
C19_ValidOrderRejected(r) ==
    (/\ req[r].pc = "Received" /\ req'[r].pc # "Received"
     /\ ValidOrder(req[r].body)
     /\ admitted[req[r].ip] = 5
     /\ ~delivered[req[r].ip])
      => req'[r].pc = "Responded" /\ req'[r].status = 429

\* C19: the limiter counts every submission that reaches it: requests that
\* were admitted and then failed with 400 or 500 keep their place in the
\* quota, and after 5 of them a valid order of the same identity in the same
\* window is answered 429.
C19_FailuresConsumeQuota ==
    /\ [][\A r \in Requests : C19_NoRefund(r) /\ C19_ValidOrderRejected(r)]_vars
    /\ [](\A ip \in Identities : hits[ip] >= admitted[ip])

\* all 5 requests admitted for the identity in this window are over and none
\* was answered 200; the valid order that followed got 429
C19_Witness ==
    \E r \in Requests :
        /\ req[r].pc = "Responded" /\ req[r].status = 429
        /\ ValidOrder(req[r].body)
        /\ admitted[req[r].ip] = 5 /\ attempts[req[r].ip] = 6
        /\ ~delivered[req[r].ip]
        /\ \A other \in Requests \ {r} : req[other].pc = "Idle"

(* C20 *)

\* the order number of r is assigned in one step only, the one that follows
\* validation, and is kept until the request is over
C20_GeneratedOnce(r) ==
    req'[r].orderNumber # req[r].orderNumber
      => \/ /\ req[r].pc = "Validated" /\ req'[r].pc = "Identified"
            /\ req[r].orderNumber = NoOrderNumber
         \/ req'[r].pc = "Idle"

\* both messages handed to the transport carry the request's order number;
\* the first goes to the business address, the second to customer.email; a
\* 200 response carries the same number
C20_Consistent(q) ==
    /\ q.orderNumber # NoOrderNumber
    /\ Len(q.sent) = 2
    /\ q.sent[1].orderNumber = q.orderNumber
    /\ q.sent[2].orderNumber = q.orderNumber
    /\ q.sent[1].to = Str("imageinboxe3@gmail.com")
    /\ q.sent[2].to = q.body.customer.email
    /\ q.status = 200 => q.resBody.orderNumber = q.orderNumber

\* C20: for every request that reaches dispatch the order number is generated
\* exactly once, and that value is in the business subject, in the customer
\* subject and, on success, in the response's orderNumber; the customer message
\* goes to customer.email and the business message to the fixed address.
C20_OneOrderNumber ==
    /\ [][\A r \in Requests : C20_GeneratedOnce(r)]_vars
    /\ [](\A r \in Requests : ReachedDispatch(req[r]) => C20_Consistent(req[r]))

\* two requests in flight with different order numbers, one answered 200
\* with its own number while the other has been dispatched
C20_Witness ==
    \E r, other \in Requests :
        /\ req[r].status = 200 /\ req[r].resBody.orderNumber = req[r].orderNumber
        /\ ReachedDispatch(req[other])
        /\ req[other].orderNumber # req[r].orderNumber
        /\ req[other].sent[2].orderNumber = req[other].orderNumber

====
